---------------------------- MODULE Spec2Model ----------------------------
(***************************************************************************)
(* Model of the FeelTech FY6600 AWG driver (awgdrivers/fy6600.py).         *)
(*                                                                         *)
(* A session is the FY6600 object: channel_on, r_load, v_out_coeff, ser.   *)
(* Every public method is one action.  The serial line is observed through *)
(* `wire`, the events of the last call in order (open / write / sleep /    *)
(* read / close), and `result`, the exception the call ended with ("ok"    *)
(* when it returned).  `call` is the last call and `pre` the session       *)
(* fields before it.                                                       *)
(*                                                                         *)
(* Numbers: Python floats are modelled as exact reduced rationals <<n,d>>. *)
(* Strings are sequences of one-character strings.  The payload of the     *)
(* offset commands ("%s" of a float) is kept as the rational itself.       *)
(*                                                                         *)
(* Spec is the whole driver.  SpecLine and SpecLoad are its restrictions   *)
(* to the calls that reach the serial line and to the calls that use the   *)
(* load compensation; the properties are checked under these two.          *)
(***************************************************************************)
EXTENDS Integers, Sequences, FiniteSets, TLC

VARIABLES channel_on, r_load, v_out_coeff, ser, wire, result, call, pre

vars == <<channel_on, r_load, v_out_coeff, ser, wire, result, call, pre>>

(***************************************************************************)
(* Bounds of the model.                                                    *)
(***************************************************************************)
\* phases go down to -10 - 360 * MaxTurns degrees
MaxTurns == 1
\* requested amplitudes and offsets go up to MaxVolts volts
MaxVolts == 1

(***************************************************************************)
(* Module constants.                                                       *)
(***************************************************************************)
\* Python's None as a channel argument (an integer outside every channel set)
None == -100
CHANNELS == {0, 1, 2}
R_IN == 50
\* constants.HI_Z, the "high impedance" sentinel
HI_Z == 1000000
\* constants.WAVE_TYPES, the supported waveform codes
WAVE_TYPES == {0, 1, 2, 3}

(***************************************************************************)
(* Rational arithmetic (Python float arithmetic, taken exactly).           *)
(***************************************************************************)
Abs(n) == IF n < 0 THEN -n ELSE n

RECURSIVE GCD(_, _)
GCD(a, b) == IF b = 0 THEN a ELSE GCD(b, a % b)

\* the reduced fraction n/d, d # 0, with a positive denominator
Rat(n, d) ==
    LET g == GCD(Abs(n), Abs(d))
        s == IF d < 0 THEN -1 ELSE 1
    IN  <<(s * n) \div g, (s * d) \div g>>

\* p / q for rationals, q # 0
RDiv(p, q) == Rat(p[1] * q[2], p[2] * q[1])

RECURSIVE Pow10(_)
Pow10(k) == IF k = 0 THEN 1 ELSE 10 * Pow10(k - 1)

(***************************************************************************)
(* String formatting.                                                      *)
(***************************************************************************)
Char(d) == <<"0", "1", "2", "3", "4", "5", "6", "7", "8", "9">>[d + 1]

\* decimal digits of n >= 0, no leading zeros
RECURSIVE Digits(_)
Digits(n) == IF n < 10 THEN <<Char(n)>> ELSE Digits(n \div 10) \o <<Char(n % 10)>>

RECURSIVE ZeroPad(_, _)
ZeroPad(s, w) == IF Len(s) >= w THEN s ELSE ZeroPad(<<"0">> \o s, w)

\* "%s" % n for an int n
PyStrInt(n) == IF n < 0 THEN <<"-">> \o Digits(-n) ELSE Digits(n)

\* nearest integer to n/d (n >= 0, d > 0), ties to even
RoundHalfEven(n, d) ==
    LET q == n \div d
        r == n % d
    IN  IF 2 * r < d THEN q
        ELSE IF 2 * r > d THEN q + 1
        ELSE IF q % 2 = 0 THEN q ELSE q + 1

\* "%.<places>f" % q for a rational q
PyFormatF(q, places) ==
    LET m    == RoundHalfEven(Abs(q[1]) * Pow10(places), q[2])
        sign == IF q[1] < 0 THEN <<"-">> ELSE <<>>
    IN  sign \o Digits(m \div Pow10(places)) \o <<".">>
             \o ZeroPad(Digits(m % Pow10(places)), places)

\* s.replace(".", "")
RemoveDots(s) == SelectSeq(s, LAMBDA c : c # ".")

\* list[i] of a two-element Python list (negative indices count from the
\* end), as a 1-based index
PyIndex(i) == IF i < 0 THEN i + 2 + 1 ELSE i + 1

(***************************************************************************)
(* Serial line events.                                                     *)
(***************************************************************************)
Cmd(prefix, arg) == [prefix |-> prefix, arg |-> arg]
Ev(kind, prefix, arg) == [ev |-> kind, cmd |-> Cmd(prefix, arg)]
Write(prefix, arg) == Ev("write", prefix, arg)
Sleep == Ev("sleep", "", <<>>)
Open == Ev("open", "", <<>>)
Close == Ev("close", "", <<>>)
Read == Ev("read", "", <<>>)

IsWrite(e) == e.ev = "write"
\* the commands written, in order
Written(w) == SelectSeq(w, IsWrite)
NumWritten(w) == Len(Written(w))


(***************************************************************************)
(* The driver.  `self` is the FY6600 object together with the events of    *)
(* the running call, the exception raised so far ("ok": none) and `fail`,  *)
(* the number of the serial write of this call that raises (0: none).      *)
(* A statement reached after an exception was raised is not executed.      *)
(***************************************************************************)
Raise(self, e) == IF self.exc = "ok" THEN [self EXCEPT !.exc = e] ELSE self

\* if channel is not None and channel not in CHANNELS: raise UnknownChannelError
CheckChannel(self, channel) ==
    IF channel # None /\ channel \notin CHANNELS
    THEN Raise(self, "UnknownChannelError")
    ELSE self

\* self.ser = serial.Serial(...); `connectFails`: the port cannot be opened
_connect(self, connectFails) ==
    IF self.exc # "ok" THEN self
    ELSE IF connectFails THEN Raise(self, "SerialException")
    ELSE [self EXCEPT !.ser = "open", !.wire = @ \o <<Open>>]

\* _send_command with the write wrapped in try / except: pass
_send_command_swallowing(self, prefix, arg) ==
    IF self.exc # "ok" THEN self
    ELSE IF self.ser # "open" \/ NumWritten(self.wire) + 1 = self.fail THEN self
    ELSE [self EXCEPT !.wire = @ \o <<Write(prefix, arg), Sleep>>]

\* self.ser.write(cmd + EOL); time.sleep(SLEEP_TIME).  Before _connect
\* self.ser is None; a closed port refuses the write; an open port may fail.
_send_command(self, prefix, arg) ==
    IF self.exc # "ok" THEN self
    ELSE IF self.ser = "none" THEN Raise(self, "AttributeError")
    ELSE IF self.ser = "closed" THEN Raise(self, "PortNotOpenError")
    ELSE IF NumWritten(self.wire) + 1 = self.fail THEN Raise(self, "SerialException")
    ELSE [self EXCEPT !.wire = @ \o <<Write(prefix, arg), Sleep>>]

disconnect(self) ==
    IF self.ser = "none" THEN Raise(self, "AttributeError")
    ELSE [self EXCEPT !.ser = "closed", !.wire = @ \o <<Close>>]

\* enable_output with ch1, ch2 read before the flags are updated
enable_output_stale_flags(self, channel, on) ==
    LET s1  == CheckChannel(self, channel)
        s2  == IF s1.exc # "ok" THEN s1
               ELSE IF channel # None /\ channel # 0
                    THEN [s1 EXCEPT !.channel_on[PyIndex(channel - 1)] = on]
                    ELSE [s1 EXCEPT !.channel_on = <<on, on>>]
        ch1 == IF s1.channel_on[1] THEN <<"1">> ELSE <<"0">>
        ch2 == IF s1.channel_on[2] THEN <<"1">> ELSE <<"0">>
        s3  == _send_command(s2, "WMN", ch1)
    IN  _send_command(s3, "WFN", ch2)

enable_output(self, channel, on) ==
    LET s1  == CheckChannel(self, channel)
        s2  == IF s1.exc # "ok" THEN s1
               ELSE IF channel # None /\ channel # 0
                    THEN [s1 EXCEPT !.channel_on[PyIndex(channel - 1)] = on]
                    ELSE [s1 EXCEPT !.channel_on = <<on, on>>]
        ch1 == IF s2.channel_on[1] THEN <<"1">> ELSE <<"0">>
        ch2 == IF s2.channel_on[2] THEN <<"1">> ELSE <<"0">>
        s3  == _send_command(s2, "WMN", ch1)
    IN  _send_command(s3, "WFN", ch2)

\* initialize with enable_output called before _connect
initialize_before_connect(self, connectFails) ==
    LET s1 == [self EXCEPT !.channel_on = <<FALSE, FALSE>>]
        s2 == enable_output(s1, None, FALSE)
    IN  _connect(s2, connectFails)

initialize(self, connectFails) ==
    LET s1 == [self EXCEPT !.channel_on = <<FALSE, FALSE>>]
        s2 == _connect(s1, connectFails)
    IN  enable_output(s2, None, FALSE)

get_id(self) ==
    LET s1 == _send_command(self, "UID", <<>>)
    IN  IF s1.exc # "ok" THEN s1 ELSE [s1 EXCEPT !.wire = @ \o <<Read>>]

set_frequency(self, channel, freq) ==
    LET s1       == CheckChannel(self, channel)
        freq_str == RemoveDots(PyFormatF(freq, 2)) \o <<"0", "0", "0", "0">>
        s2       == IF channel \in {0, 1} \/ channel = None
                    THEN _send_command(s1, "WMF", freq_str) ELSE s1
    IN  IF channel \in {0, 2} THEN _send_command(s2, "WFF", freq_str) ELSE s2

set_phase(self, channel, phase) ==
    LET p == IF phase < 0 THEN phase + 360 ELSE phase
    IN  _send_command(self, "WFP", PyStrInt(p))

\* set_wave_type without the wave type check
set_wave_type_unchecked(self, channel, wave_type) ==
    LET s1 == CheckChannel(self, channel)
        s3 == IF channel \in {0, 1} \/ channel = None
              THEN _send_command(s1, "WMW", <<"0", "0">>) ELSE s1
    IN  IF channel \in {0, 2} \/ channel = None
        THEN _send_command(s3, "WFW", <<"0", "0">>) ELSE s3

set_wave_type(self, channel, wave_type) ==
    LET s1 == CheckChannel(self, channel)
        s2 == IF wave_type \notin WAVE_TYPES THEN Raise(s1, "ValueError") ELSE s1
        s3 == IF channel \in {0, 1} \/ channel = None
              THEN _send_command(s2, "WMW", <<"0", "0">>) ELSE s2
    IN  IF channel \in {0, 2} \/ channel = None
        THEN _send_command(s3, "WFW", <<"0", "0">>) ELSE s3

\* value / self.v_out_coeff[channel - 1]: the exception it raises, if any
CoeffError(self, channel) ==
    IF channel = None THEN "TypeError"
    ELSE IF self.v_out_coeff[PyIndex(channel - 1)][1] = 0 THEN "ZeroDivisionError"
    ELSE "ok"

\* value / self.v_out_coeff[channel - 1]
Compensated(self, channel, value) ==
    RDiv(value, self.v_out_coeff[PyIndex(channel - 1)])

set_amplitude(self, channel, amplitude) ==
    LET s1 == CheckChannel(self, channel)
        s2 == IF s1.exc = "ok" /\ CoeffError(s1, channel) # "ok"
              THEN Raise(s1, CoeffError(s1, channel)) ELSE s1
    IN  IF s2.exc # "ok" THEN s2
        ELSE LET amp_str == PyFormatF(Compensated(s2, channel, amplitude), 3)
                 s3 == IF channel \in {0, 1} \/ channel = None
                       THEN _send_command(s2, "WMA", amp_str) ELSE s2
             IN  IF channel \in {0, 2} \/ channel = None
                 THEN _send_command(s3, "WFA", amp_str) ELSE s3

set_offset(self, channel, offset) ==
    LET s1 == CheckChannel(self, channel)
        s2 == IF s1.exc = "ok" /\ CoeffError(s1, channel) # "ok"
              THEN Raise(s1, CoeffError(s1, channel)) ELSE s1
    IN  IF s2.exc # "ok" THEN s2
        ELSE LET off == Compensated(s2, channel, offset)
                 s3 == IF channel \in {0, 1} \/ channel = None
                       THEN _send_command(s2, "WMO", off) ELSE s2
             IN  IF channel \in {0, 2} \/ channel = None
                 THEN _send_command(s3, "WFO", off) ELSE s3

\* the coefficient set_load_impedance computes for z
Coefficient(z) == IF z = HI_Z THEN <<1, 1>> ELSE Rat(z, z + R_IN)

set_load_impedance(self, channel, z) ==
    LET s1 == CheckChannel(self, channel)
        s2 == IF s1.exc = "ok" /\ channel = None THEN Raise(s1, "TypeError") ELSE s1
    IN  IF s2.exc # "ok" THEN s2
        ELSE IF z # HI_Z /\ z + R_IN = 0
             THEN Raise([s2 EXCEPT !.r_load[PyIndex(channel - 1)] = z], "ZeroDivisionError")
             ELSE [s2 EXCEPT !.r_load[PyIndex(channel - 1)] = z,
                             !.v_out_coeff[PyIndex(channel - 1)] = Coefficient(z)]


(***************************************************************************)
(* Arguments the caller passes.                                            *)
(***************************************************************************)
ChannelArgs == {None, 0, 1, 2, 3}
FailArgs == {0, 1, 2}
\* hertz: 0.05 Hz, 1 Hz, 1 kHz
FreqArgs == {Rat(5, 100), Rat(1, 1), Rat(1000, 1)}
\* degrees
PhaseArgs == {0, 350} \cup {-10 - 360 * k : k \in 0..MaxTurns}
WaveTypeArgs == {0, 3, 9}
\* volts
AmplitudeArgs == {Rat(44, 100)} \cup {Rat(k, 1) : k \in 1..MaxVolts}
OffsetArgs == {Rat(-333, 100)} \cup {Rat(k, 1) : k \in 1..MaxVolts}
\* ohms
LoadArgs == {50, 150, HI_Z}

NoArg == <<0, 1>>
Call(op, channel, on, arg, fail, connectFails) ==
    [op |-> op, channel |-> channel, on |-> on, arg |-> arg, fail |-> fail,
     connectFails |-> connectFails]

\* the session fields
Session(s) ==
    [channel_on |-> s.channel_on, r_load |-> s.r_load,
     v_out_coeff |-> s.v_out_coeff, ser |-> s.ser]

\* the object at the start of a call
Begin(s, fail) ==
    [channel_on |-> s.channel_on, r_load |-> s.r_load,
     v_out_coeff |-> s.v_out_coeff, ser |-> s.ser,
     wire |-> <<>>, exc |-> "ok", fail |-> fail]

\* the call c made on the session s
Run(s, c) ==
    LET self == Begin(s, c.fail)
    IN  CASE c.op = "initialize"         -> initialize(self, c.connectFails)
          [] c.op = "disconnect"         -> disconnect(self)
          [] c.op = "get_id"             -> get_id(self)
          [] c.op = "enable_output"      -> enable_output(self, c.channel, c.on)
          [] c.op = "set_frequency"      -> set_frequency(self, c.channel, c.arg)
          [] c.op = "set_phase"          -> set_phase(self, c.channel, c.arg[1])
          [] c.op = "set_wave_type"      -> set_wave_type(self, c.channel, c.arg[1])
          [] c.op = "set_amplitude"      -> set_amplitude(self, c.channel, c.arg)
          [] c.op = "set_offset"         -> set_offset(self, c.channel, c.arg)
          [] c.op = "set_load_impedance" -> set_load_impedance(self, c.channel, c.arg[1])

Now == [channel_on |-> channel_on, r_load |-> r_load,
        v_out_coeff |-> v_out_coeff, ser |-> ser]

\* the session after the call c, with what the call left on the serial line
Return(c) ==
    LET out == Run(Now, c)
    IN  /\ channel_on' = out.channel_on
        /\ r_load' = out.r_load
        /\ v_out_coeff' = out.v_out_coeff
        /\ ser' = out.ser
        /\ wire' = out.wire
        /\ result' = out.exc

\* FY6600.__init__
Init ==
    /\ channel_on = <<FALSE, FALSE>>
    /\ r_load = <<50, 50>>
    /\ v_out_coeff = <<<<1, 1>>, <<1, 1>>>>
    /\ ser = "none"
    /\ wire = <<>>
    /\ result = "ok"
    /\ call = Call("__init__", None, FALSE, NoArg, 0, FALSE)
    /\ pre = Now

Initialize ==
    \E f \in FailArgs, cf \in BOOLEAN :
        /\ call' = Call("initialize", None, FALSE, NoArg, f, cf)
        /\ pre' = Now
        /\ Return(call')

Disconnect ==
    /\ call' = Call("disconnect", None, FALSE, NoArg, 0, FALSE)
    /\ pre' = Now
    /\ Return(call')

GetId ==
    \E f \in FailArgs :
        /\ call' = Call("get_id", None, FALSE, NoArg, f, FALSE)
        /\ pre' = Now
        /\ Return(call')

EnableOutput ==
    \E ch \in ChannelArgs, on \in BOOLEAN, f \in FailArgs :
        /\ call' = Call("enable_output", ch, on, NoArg, f, FALSE)
        /\ pre' = Now
        /\ Return(call')

SetFrequency ==
    \E ch \in ChannelArgs, freq \in FreqArgs, f \in FailArgs :
        /\ call' = Call("set_frequency", ch, FALSE, freq, f, FALSE)
        /\ pre' = Now
        /\ Return(call')

SetPhase ==
    \E ch \in ChannelArgs, phase \in PhaseArgs, f \in FailArgs :
        /\ call' = Call("set_phase", ch, FALSE, <<phase, 1>>, f, FALSE)
        /\ pre' = Now
        /\ Return(call')

SetWaveType ==
    \E ch \in ChannelArgs, wt \in WaveTypeArgs, f \in FailArgs :
        /\ call' = Call("set_wave_type", ch, FALSE, <<wt, 1>>, f, FALSE)
        /\ pre' = Now
        /\ Return(call')

SetAmplitude ==
    \E ch \in ChannelArgs, a \in AmplitudeArgs, f \in FailArgs :
        /\ call' = Call("set_amplitude", ch, FALSE, a, f, FALSE)
        /\ pre' = Now
        /\ Return(call')

SetOffset ==
    \E ch \in ChannelArgs, v \in OffsetArgs, f \in FailArgs :
        /\ call' = Call("set_offset", ch, FALSE, v, f, FALSE)
        /\ pre' = Now
        /\ Return(call')

SetLoadImpedance ==
    \E ch \in ChannelArgs, z \in LoadArgs :
        /\ call' = Call("set_load_impedance", ch, FALSE, <<z, 1>>, 0, FALSE)
        /\ pre' = Now
        /\ Return(call')

Next ==
    \/ Initialize
    \/ Disconnect
    \/ GetId
    \/ EnableOutput
    \/ SetFrequency
    \/ SetPhase
    \/ SetWaveType
    \/ SetAmplitude
    \/ SetOffset
    \/ SetLoadImpedance

Spec == Init /\ [][Next]_vars

\* The sessions that never call set_load_impedance: the loads keep their
\* defaults, everything that reaches the serial line is there.
NextLine ==
    \/ Initialize
    \/ Disconnect
    \/ GetId
    \/ EnableOutput
    \/ SetFrequency
    \/ SetPhase
    \/ SetWaveType
    \/ SetAmplitude
    \/ SetOffset

SpecLine == Init /\ [][NextLine]_vars

\* The sessions that use only the load compensation: the load setter and
\* the two setters that read the coefficient.
NextLoad ==
    \/ Initialize
    \/ SetLoadImpedance
    \/ SetAmplitude
    \/ SetOffset

SpecLoad == Init /\ [][NextLoad]_vars

TypeOK ==
    /\ channel_on \in BOOLEAN \X BOOLEAN
    /\ r_load \in LoadArgs \X LoadArgs
    /\ ser \in {"none", "open", "closed"}
    /\ result \in {"ok", "UnknownChannelError", "ValueError", "TypeError",
                   "ZeroDivisionError", "AttributeError", "PortNotOpenError",
                   "SerialException"}


(***************************************************************************)
(* Vocabulary of the properties.                                           *)
(***************************************************************************)
\* the channels a channel argument of 0, 1 or 2 addresses
Addressed(channel) == IF channel = 0 THEN {1, 2} ELSE {channel}

\* z / (z + 50), or 1 for the Hi-Z sentinel
Divider(z) == IF z = HI_Z THEN <<1, 1>> ELSE Rat(z, z + 50)

IsPrefix(a, b) == Len(a) <= Len(b) /\ SubSeq(b, 1, Len(a)) = a

Flag(b) == IF b THEN <<"1">> ELSE <<"0">>

ValidatingOps ==
    {"enable_output", "set_frequency", "set_amplitude", "set_offset", "set_wave_type"}

\* the calls that issue two commands
TwoCommandCall ==
    \/ call.op = "enable_output"
    \/ /\ call.op \in {"set_frequency", "set_wave_type", "set_amplitude", "set_offset"}
       /\ call.channel = 0

(***************************************************************************)
(* C1: in every reachable state, each channel's coefficient is the divider *)
(* value of that channel's load: 1 for Hi-Z, else load / (load + 50).      *)
(***************************************************************************)
C1_CoefficientReflectsLoad ==
    \A c \in {1, 2} : v_out_coeff[c] = Divider(r_load[c])

(***************************************************************************)
(* C2: every amplitude / offset command written for channel c (WMA, WMO:   *)
(* channel 1; WFA, WFO: channel 2) carries the requested value divided by  *)
(* the coefficient of channel c, also when channel 0 addresses both.       *)
(***************************************************************************)
C2_CompensationPerChannel ==
    (call.op \in {"set_amplitude", "set_offset"} /\ call.channel \in CHANNELS) =>
        \A i \in 1..Len(wire) :
            IsWrite(wire[i]) =>
                LET c     == IF wire[i].cmd.prefix \in {"WMA", "WMO"} THEN 1 ELSE 2
                    value == RDiv(call.arg, pre.v_out_coeff[c])
                IN  wire[i].cmd.arg =
                        IF call.op = "set_amplitude" THEN PyFormatF(value, 3) ELSE value

(***************************************************************************)
(* C3: set_load_impedance(channel, z), channel in {0,1,2}, stores z and    *)
(* its divider value for every addressed channel (both for channel 0),     *)
(* leaves the other channel alone and writes nothing.                      *)
(***************************************************************************)
C3_LoadStoredPerAddressedChannel ==
    (call.op = "set_load_impedance" /\ call.channel \in CHANNELS) =>
        /\ result = "ok"
        /\ wire = <<>>
        /\ \A c \in {1, 2} :
              IF c \in Addressed(call.channel)
              THEN r_load[c] = call.arg[1] /\ v_out_coeff[c] = Divider(call.arg[1])
              ELSE r_load[c] = pre.r_load[c] /\ v_out_coeff[c] = pre.v_out_coeff[c]

(***************************************************************************)
(* C4 as stated: every channel argument outside {0,1,2} (None included)    *)
(* makes the five validating operations fail with UnknownChannelError, an  *)
(* unsupported wave type makes set_wave_type fail with ValueError, and a   *)
(* failing call writes nothing and changes nothing.                        *)
(***************************************************************************)
C4_Original ==
    /\ (call.op \in ValidatingOps /\ call.channel \notin CHANNELS) =>
          /\ result = "UnknownChannelError"
          /\ NumWritten(wire) = 0
          /\ Now = pre
    /\ (call.op = "set_wave_type" /\ call.channel \in CHANNELS
            /\ call.arg[1] \notin WAVE_TYPES) =>
          /\ result = "ValueError"
          /\ NumWritten(wire) = 0
          /\ Now = pre

(***************************************************************************)
(* C4 amended: every channel argument that is neither None nor one of      *)
(* 0, 1, 2 makes the five validating operations fail with                  *)
(* UnknownChannelError; set_wave_type with an accepted channel (None, 0,   *)
(* 1, 2) and an unsupported wave type fails with ValueError; such a call   *)
(* writes nothing and leaves the session unchanged.                        *)
(***************************************************************************)
C4_ValidationPrecedesTransmission ==
    /\ (call.op \in ValidatingOps /\ call.channel # None
            /\ call.channel \notin CHANNELS) =>
          /\ result = "UnknownChannelError"
          /\ NumWritten(wire) = 0
          /\ Now = pre
    /\ (call.op = "set_wave_type" /\ call.channel \in CHANNELS \cup {None}
            /\ call.arg[1] \notin WAVE_TYPES) =>
          /\ result = "ValueError"
          /\ NumWritten(wire) = 0
          /\ Now = pre

\* an unsupported wave type refused on an open port, flags set
C4_Witness ==
    /\ call.op = "set_wave_type"
    /\ call.channel = 0
    /\ call.arg[1] \notin WAVE_TYPES
    /\ call.fail = 0
    /\ pre.ser = "open"
    /\ pre.channel_on = <<TRUE, TRUE>>
    /\ result = "ValueError"

(***************************************************************************)
(* C5: enable_output(channel, on), channel in {0,1,2}, sets the flag of    *)
(* every addressed channel to `on`, keeps the other flag, then writes      *)
(* WMN<flag 1>, sleeps, writes WFN<flag 2>, sleeps, with the updated       *)
(* flags; a call cut short by the serial line has done a prefix of that.   *)
(***************************************************************************)
C5_EnableOutputSequence ==
    (call.op = "enable_output" /\ call.channel \in CHANNELS) =>
        LET full == <<Write("WMN", Flag(channel_on[1])), Sleep,
                      Write("WFN", Flag(channel_on[2])), Sleep>>
        IN  /\ \A c \in {1, 2} :
                  channel_on[c] = IF c \in Addressed(call.channel)
                                  THEN call.on ELSE pre.channel_on[c]
            /\ IsPrefix(wire, full)
            /\ (result = "ok" => wire = full)
            /\ ((pre.ser = "open" /\ call.fail = 0) => result = "ok")

\* enable_output(0, True) on an open port with both flags off
C5_Witness ==
    /\ call.op = "enable_output"
    /\ call.channel = 0
    /\ call.on
    /\ pre.channel_on = <<FALSE, FALSE>>
    /\ result = "ok"
    /\ channel_on = <<TRUE, TRUE>>
    /\ wire = <<Write("WMN", <<"1">>), Sleep, Write("WFN", <<"1">>), Sleep>>

(***************************************************************************)
(* C6 as stated: a call that issues two commands never ends with exactly   *)
(* one of them written, whatever the serial line does.                     *)
(***************************************************************************)
C6_Original == TwoCommandCall => NumWritten(wire) \in {0, 2}

(***************************************************************************)
(* C6 amended: a call that issues two commands writes both when it         *)
(* returns; writes none when it fails validation or fails at its first     *)
(* serial write; and ends with exactly its first command written when,     *)
(* and only when, its second serial write fails.                           *)
(***************************************************************************)
C6_PartialOnlyOnSecondWriteFailure ==
    TwoCommandCall =>
        LET secondFailed == result = "SerialException" /\ call.fail = 2
        IN  /\ (result = "ok" => NumWritten(wire) = 2)
            /\ (secondFailed => NumWritten(wire) = 1)
            /\ ((result # "ok" /\ ~secondFailed) => NumWritten(wire) = 0)

\* set_frequency(0, f) whose second write fails: WMF is out, WFF is not
C6_Witness ==
    /\ call.op = "set_frequency"
    /\ call.channel = 0
    /\ call.fail = 2
    /\ result = "SerialException"
    /\ NumWritten(wire) = 1
    /\ wire[1].cmd.prefix = "WMF"

(***************************************************************************)
(* C7: set_phase writes exactly one command, WFP, whatever the channel     *)
(* argument; a negative phase is sent normalised into [0, 360), a phase    *)
(* in [0, 360) is sent unchanged.                                          *)
(***************************************************************************)
C7_PhaseNormalised ==
    (call.op = "set_phase" /\ result = "ok") =>
        Written(wire) = <<Write("WFP", PyStrInt(call.arg[1] % 360))>>

(***************************************************************************)
(* C8: a call with channel None has the outcome of the same call with      *)
(* channel 0: same events on the line, same result, same session.          *)
(***************************************************************************)
C8_NoneMeansBoth ==
    (call.op \in ValidatingOps \cup {"set_load_impedance"} /\ call.channel = None) =>
        LET both == Run(pre, [call EXCEPT !.channel = 0])
        IN  /\ wire = both.wire
            /\ result = both.exc
            /\ Now = Session(both)

(***************************************************************************)
(* C9: set_frequency writes WMF<n> for channel 1, WFF<n> for channel 2,    *)
(* both in that order for channel 0, where <n> is f * 100 followed by four *)
(* zeros, zero-padded on the left to 14 digits.                            *)
(***************************************************************************)
C9_FrequencyFixedWidth ==
    (call.op = "set_frequency" /\ call.channel \in CHANNELS /\ result = "ok") =>
        LET centi == (call.arg[1] * 100) \div call.arg[2]
            n     == ZeroPad(Digits(centi) \o <<"0", "0", "0", "0">>, 14)
        IN  Written(wire) =
                CASE call.channel = 1 -> <<Write("WMF", n)>>
                  [] call.channel = 2 -> <<Write("WFF", n)>>
                  [] call.channel = 0 -> <<Write("WMF", n), Write("WFF", n)>>

(***************************************************************************)
(* C10: initialize() opens the transport, then writes WMN0, sleeps, writes *)
(* WFN0, sleeps, and ends with both flags off, whatever the flags were; a  *)
(* call cut short has done a prefix of that; and no command of any call is *)
(* written unless the transport was opened before it.                      *)
(***************************************************************************)
C10_InitializeOpensThenSilences ==
    /\ call.op = "initialize" =>
          LET full == <<Open, Write("WMN", <<"0">>), Sleep,
                        Write("WFN", <<"0">>), Sleep>>
          IN  /\ channel_on = <<FALSE, FALSE>>
              /\ IsPrefix(wire, full)
              /\ (result = "ok" => wire = full /\ ser = "open")
              /\ ((~call.connectFails /\ call.fail = 0) => result = "ok")
    /\ \A i \in 1..Len(wire) :
          IsWrite(wire[i]) =>
              \/ pre.ser = "open"
              \/ \E j \in 1..(i - 1) : wire[j] = Open
    /\ (ser = "none" => NumWritten(wire) = 0)

\* initialize() called with both flags on
C10_Witness ==
    /\ call.op = "initialize"
    /\ pre.channel_on = <<TRUE, TRUE>>
    /\ result = "ok"
    /\ channel_on = <<FALSE, FALSE>>
    /\ Len(wire) = 5

=============================================================================
